---- MODULE Spec2Model ----
(***************************************************************************)
(* A state-machine model of arxiv_update_bot/main.py: the module-level     *)
(* weekend gate, load_config, get_articles, send_articles and main.        *)
(* The feed server, the configuration file, the clock and the command      *)
(* line are the environment: their values are drawn when the program       *)
(* reads them.                                                             *)
(***************************************************************************)
EXTENDS Naturals, Sequences, FiniteSets, TLC

VARIABLES
    pc,        \* position of the process
    day,       \* date.strftime('%A'), "" before the gate has run
    quiet,     \* args.quiet
    config,    \* the sections config.read(path) found, in file order
    exc,       \* the uncaught exception that ended the run, "none" otherwise
    exitCode,  \* process exit status; 2 stands for a process still running
    token,     \* first component of load_config's result
    updates,   \* second component of load_config's result
    u,         \* index in updates of the update main's loop is at
    c,         \* index of the category send_articles' first loop is at
    articles,  \* send_articles' local list
    fetched,   \* the feeds feedparser.parse returned during this send_articles call
    k,         \* index of the article send_articles' last loop is at
    log        \* every feedparser.parse and bot.send_message call, in call order

vars == <<pc, day, quiet, config, exc, exitCode, token, updates, u, c,
          articles, fetched, k, log>>

---------------------------------------------------------------------------
(* Bounds of the model *)

MaxFeedLen == 2
MaxSections == 3

---------------------------------------------------------------------------
(* Helpers on sequences *)

InSeq(x, s) == \E i \in DOMAIN s : s[i] = x

RECURSIVE flatten(_)
flatten(l) == IF l = <<>> THEN <<>> ELSE Head(l) \o flatten(Tail(l))

---------------------------------------------------------------------------
(* The weekend gate *)

DayNames == {"Monday", "Tuesday", "Wednesday", "Thursday", "Friday",
             "Saturday", "Sunday"}

IsSkipDayOnlySunday(d) == d \in {"Sunday"}

IsSkipDay(d) == d \in {"Saturday", "Sunday"}

---------------------------------------------------------------------------
(* The configuration file.  A section is its name and its options; an     *)
(* option value is the raw text, a sequence of tokens in which "," is the *)
(* separator str.split(",") cuts at.                                      *)

NoOpts == [x \in {} |-> <<>>]

SecBot == [name |-> "bot", opts |-> ("token" :> <<"tok">>)]

SecBotNoToken == [name |-> "bot", opts |-> NoOpts]

SecAlice == [name |-> "alice",
             opts |-> ("category" :> <<"c1", ",", "c2">>)
                   @@ ("chat_id" :> <<"chatA">>)
                   @@ ("buzzwords" :> <<"k1", ",", "k2">>)
                   @@ ("authors" :> <<"a1", ",", "a2">>)]

SecBob == [name |-> "bob",
           opts |-> ("category" :> <<"c2">>)
                 @@ ("chat_id" :> <<"chatB">>)
                 @@ ("buzzwords" :> <<"k3">>)
                 @@ ("authors" :> <<"a3", ",">>)]

SecNoAuthors == [name |-> "carol",
                 opts |-> ("category" :> <<"c1">>)
                       @@ ("chat_id" :> <<"chatC">>)
                       @@ ("buzzwords" :> <<"k1">>)]

SecNoBuzzwords == [name |-> "dave",
                   opts |-> ("category" :> <<"c1">>)
                         @@ ("chat_id" :> <<"chatD">>)
                         @@ ("authors" :> <<"a1">>)]

SecNoChatId == [name |-> "erin",
                opts |-> ("category" :> <<"c1">>)
                      @@ ("buzzwords" :> <<"k1">>)
                      @@ ("authors" :> <<"a1">>)]

SecNoCategory == [name |-> "frank",
                  opts |-> ("chat_id" :> <<"chatF">>)
                        @@ ("buzzwords" :> <<"k1">>)
                        @@ ("authors" :> <<"a1">>)]

SectionTemplates == {SecBot, SecBotNoToken, SecAlice, SecBob, SecNoAuthors,
                     SecNoBuzzwords, SecNoChatId, SecNoCategory}

\* configparser refuses a file that names a section twice
Configs ==
    { s \in UNION { [1..n -> SectionTemplates] : n \in 0..MaxSections } :
        \A i, j \in DOMAIN s : i # j => s[i].name # s[j].name }

\* str.split(","): the pieces between the separators; the empty text gives [""]
RECURSIVE SplitFrom(_, _, _)
SplitFrom(raw, i, cur) ==
    IF i > Len(raw) THEN <<cur>>
    ELSE IF raw[i] = "," THEN <<cur>> \o SplitFrom(raw, i + 1, "")
    ELSE SplitFrom(raw, i + 1, raw[i])

Split(raw) == SplitFrom(raw, 1, "")

HasSection(cfg, n) == \E i \in DOMAIN cfg : cfg[i].name = n

SectionOpts(cfg, n) == cfg[CHOOSE i \in DOMAIN cfg : cfg[i].name = n].opts

SectionComplete(opts) ==
    /\ "category" \in DOMAIN opts
    /\ "chat_id" \in DOMAIN opts
    /\ "buzzwords" \in DOMAIN opts

NoResult(e) == [exc |-> e, token |-> "", updates |-> <<>>]

\* the loop over config.sections() of load_config, from section i on
RECURSIVE LoadSections(_, _, _)
LoadSections(cfg, i, acc) ==
    IF i > Len(cfg) THEN [exc |-> "none", token |-> "", updates |-> acc]
    ELSE IF cfg[i].name = "bot" THEN LoadSections(cfg, i + 1, acc)
    ELSE IF ~SectionComplete(cfg[i].opts) THEN NoResult("Exception:incomplete")
    ELSE IF "authors" \notin DOMAIN cfg[i].opts THEN NoResult("KeyError:authors")
    ELSE LoadSections(cfg, i + 1,
            Append(acc, [category  |-> Split(cfg[i].opts["category"]),
                         chat_id   |-> cfg[i].opts["chat_id"][1],
                         buzzwords |-> Split(cfg[i].opts["buzzwords"]),
                         authors   |-> Split(cfg[i].opts["authors"])]))

\* load_config with "continue" where the code raises for an incomplete section
RECURSIVE LoadSectionsSkipping(_, _, _)
LoadSectionsSkipping(cfg, i, acc) ==
    IF i > Len(cfg) THEN [exc |-> "none", token |-> "", updates |-> acc]
    ELSE IF cfg[i].name = "bot" \/ ~SectionComplete(cfg[i].opts)
         THEN LoadSectionsSkipping(cfg, i + 1, acc)
    ELSE IF "authors" \notin DOMAIN cfg[i].opts THEN NoResult("KeyError:authors")
    ELSE LoadSectionsSkipping(cfg, i + 1,
            Append(acc, [category  |-> Split(cfg[i].opts["category"]),
                         chat_id   |-> cfg[i].opts["chat_id"][1],
                         buzzwords |-> Split(cfg[i].opts["buzzwords"]),
                         authors   |-> Split(cfg[i].opts["authors"])]))

load_config_skipping(cfg) ==
    IF ~HasSection(cfg, "bot") THEN NoResult("Exception:no_bot")
    ELSE IF "token" \notin DOMAIN SectionOpts(cfg, "bot")
         THEN NoResult("Exception:no_token")
    ELSE LET r == LoadSectionsSkipping(cfg, 1, <<>>)
         IN  IF r.exc # "none" THEN r
             ELSE [r EXCEPT !.token = SectionOpts(cfg, "bot")["token"][1]]

load_config(cfg) ==
    IF ~HasSection(cfg, "bot") THEN NoResult("Exception:no_bot")
    ELSE IF "token" \notin DOMAIN SectionOpts(cfg, "bot")
         THEN NoResult("Exception:no_token")
    ELSE LET r == LoadSections(cfg, 1, <<>>)
         IN  IF r.exc # "none" THEN r
             ELSE [r EXCEPT !.token = SectionOpts(cfg, "bot")["token"][1]]

---------------------------------------------------------------------------
(* Feed entries.  A text is its sequence of words; authors is the list of *)
(* author names of the entry.                                             *)

E1 == [id |-> "arxiv:1", title |-> <<"k1", "k2~", "k3?">>,
       summary |-> <<"<p>", "x", "\n", "y", "</p>">>,
       authors |-> <<"a3?">>]

\* the entry of the same identifier as another feed serves it, revised
E1b == [id |-> "arxiv:1", title |-> <<"k1?">>,
        summary |-> <<"<p>", "x", "\n", "y", "</p>">>,
        authors |-> <<"a1", "a2">>]

E2 == [id |-> "arxiv:2", title |-> <<"x">>,
       summary |-> <<"<p>", "k3", "\n", "k2~", "</p>">>,
       authors |-> <<"a2", "zed">>]

Entries == {E1, E1b, E2}

\* what the server may answer for a category: a feed lists an entry once
Feeds ==
    { f \in UNION { [1..n -> Entries] : n \in 0..MaxFeedLen } :
        \A i, j \in DOMAIN f : i # j => f[i] # f[j] }

---------------------------------------------------------------------------
(* fuzz.partial_ratio: the best score of the query against a window of    *)
(* the target.  "w~" stands for a near-verbatim spelling of w (score 91)  *)
(* and "w?" for one that scores exactly 90.                               *)

Threshold == 90

NearSpellings == {<<"k2", "k2~">>}

EdgeSpellings == {<<"k1", "k1?">>, <<"k3", "k3?">>, <<"a3", "a3?">>}

WordScore(q, w) ==
    IF w = q THEN 100
    ELSE IF <<q, w>> \in NearSpellings THEN 91
    ELSE IF <<q, w>> \in EdgeSpellings THEN 90
    ELSE 0

\* fuzzywuzzy scores an empty query or an empty target 0
partial_ratio(q, t) ==
    IF q = "" \/ t = <<>> THEN 0
    ELSE LET scores == { WordScore(q, t[i]) : i \in DOMAIN t }
         IN  CHOOSE m \in scores : \A n \in scores : n <= m

---------------------------------------------------------------------------
(* get_articles: the filter over the entries of one feed *)

\* the loop over buzzwords["article"] for one entry, from keyword i on
RECURSIVE ArticleLoop(_, _, _, _)
ArticleLoop(entry, words, i, res) ==
    IF i > Len(words) THEN res
    ELSE ArticleLoop(entry, words, i + 1,
            IF (partial_ratio(words[i], entry.title) > Threshold
                \/ partial_ratio(words[i], entry.summary) > Threshold)
               /\ ~InSeq(entry, res)
            THEN Append(res, entry) ELSE res)

\* the loop over buzzwords["authors"] for one entry, from author i on; the
\* target is the whole authors list, which fuzzywuzzy scores as one text
RECURSIVE AuthorsLoop(_, _, _, _)
AuthorsLoop(entry, names, i, res) ==
    IF i > Len(names) THEN res
    ELSE AuthorsLoop(entry, names, i + 1,
            IF partial_ratio(names[i], entry.authors) > Threshold
               /\ ~InSeq(entry, res)
            THEN Append(res, entry) ELSE res)

\* the loop over news_feed.entries, from entry i on
RECURSIVE EntriesLoop(_, _, _, _)
EntriesLoop(feed, buzzwords, i, res) ==
    IF i > Len(feed) THEN res
    ELSE EntriesLoop(feed, buzzwords, i + 1,
            AuthorsLoop(feed[i], buzzwords.authors, 1,
                ArticleLoop(feed[i], buzzwords.article, 1, res)))

\* get_articles with one pass per kind of buzzword instead of one pass per entry
RECURSIVE KeywordPass(_, _, _, _)
KeywordPass(feed, buzzwords, i, res) ==
    IF i > Len(feed) THEN res
    ELSE KeywordPass(feed, buzzwords, i + 1,
            ArticleLoop(feed[i], buzzwords.article, 1, res))

RECURSIVE AuthorPass(_, _, _, _)
AuthorPass(feed, buzzwords, i, res) ==
    IF i > Len(feed) THEN res
    ELSE AuthorPass(feed, buzzwords, i + 1,
            AuthorsLoop(feed[i], buzzwords.authors, 1, res))

get_articles_two_passes(feed, buzzwords) ==
    AuthorPass(feed, buzzwords, 1, KeywordPass(feed, buzzwords, 1, <<>>))

get_articles(feed, buzzwords) == EntriesLoop(feed, buzzwords, 1, <<>>)

---------------------------------------------------------------------------
(* send_articles *)

\* the loop "for entry in results" of send_articles, from result i on
RECURSIVE MergeResults(_, _, _)
MergeResults(arts, results, i) ==
    IF i > Len(results) THEN arts
    ELSE MergeResults(IF ~InSeq(results[i], arts)
                      THEN Append(arts, results[i]) ELSE arts,
                      results, i + 1)

\* str.replace on the words of a summary: "\n" becomes " ", the tags go
RECURSIVE processed_summary(_)
processed_summary(summary) ==
    IF summary = <<>> THEN <<>>
    ELSE LET w == Head(summary)
         IN  (IF w = "\n" THEN <<" ">>
              ELSE IF w \in {"<p>", "</p>"} THEN <<>>
              ELSE <<w>>) \o processed_summary(Tail(summary))

NothingText ==
    [kind |-> "nothing", count |-> 0, title |-> <<>>, author |-> "",
     link |-> "", abstract |-> <<>>]

SummaryText(arts) ==
    [kind |-> "found", count |-> Len(arts), title |-> <<>>, author |-> "",
     link |-> "", abstract |-> <<>>]

ArticleText(article) ==
    [kind |-> "article", count |-> 0, title |-> article.title,
     author |-> article.authors[1], link |-> article.id,
     abstract |-> processed_summary(article.summary)]

FetchCall(upd, category) ==
    [op |-> "parse", upd |-> upd, arg |-> category, text |-> NothingText]

SendCall(upd, chat_id, text) ==
    [op |-> "send_message", upd |-> upd, arg |-> chat_id, text |-> text]

---------------------------------------------------------------------------
(* The process *)

Init ==
    /\ pc = "gate"
    /\ day = ""
    /\ quiet = FALSE
    /\ config = <<>>
    /\ exc = "none"
    /\ exitCode = 2
    /\ token = ""
    /\ updates = <<>>
    /\ u = 0
    /\ c = 0
    /\ articles = <<>>
    /\ fetched = <<>>
    /\ k = 0
    /\ log = <<>>

\* module level: the date is read, and on a skip day the process exits 0
Gate ==
    /\ pc = "gate"
    /\ \E d \in DayNames :
        /\ day' = d
        /\ IF IsSkipDay(d)
           THEN pc' = "exited" /\ exitCode' = 0
           ELSE pc' = "main" /\ exitCode' = exitCode
    /\ UNCHANGED <<quiet, config, exc, token, updates, u, c, articles,
                   fetched, k, log>>

\* main up to the creation of the bot: the arguments, then load_config
Main ==
    /\ pc = "main"
    /\ \E q \in BOOLEAN, cfg \in Configs :
        LET r == load_config(cfg)
        IN  /\ quiet' = q
            /\ config' = cfg
            /\ IF r.exc # "none"
               THEN /\ exc' = r.exc
                    /\ exitCode' = 1
                    /\ pc' = "exited"
                    /\ UNCHANGED <<token, updates, u>>
               ELSE /\ token' = r.token
                    /\ updates' = r.updates
                    /\ u' = 1
                    /\ pc' = "loop"
                    /\ UNCHANGED <<exc, exitCode>>
    /\ UNCHANGED <<day, c, articles, fetched, k, log>>

\* "for update in updates" has a next update: send_articles is entered
StartUpdate ==
    /\ pc = "loop"
    /\ u <= Len(updates)
    /\ pc' = "fetch"
    /\ c' = 1
    /\ articles' = <<>>
    /\ fetched' = <<>>
    /\ UNCHANGED <<day, quiet, config, exc, exitCode, token, updates, u, k, log>>

\* "for update in updates" is exhausted: main returns
Finish ==
    /\ pc = "loop"
    /\ u > Len(updates)
    /\ pc' = "exited"
    /\ exitCode' = 0
    /\ UNCHANGED <<day, quiet, config, exc, token, updates, u, c, articles,
                   fetched, k, log>>

Buzzwords(update) == [authors |-> update.authors, article |-> update.buzzwords]

\* one round of "for category in categories": the feed is fetched and
\* filtered, and its results are merged into articles
GetArticles ==
    /\ pc = "fetch"
    /\ c <= Len(updates[u].category)
    /\ \E feed \in Feeds :
        /\ articles' = MergeResults(articles,
                           get_articles(feed, Buzzwords(updates[u])), 1)
        /\ fetched' = Append(fetched, feed)
    /\ log' = Append(log, FetchCall(u, updates[u].category[c]))
    /\ c' = c + 1
    /\ UNCHANGED <<pc, day, quiet, config, exc, exitCode, token, updates, u, k>>

\* the fetch or the filter raises (a connection that breaks while the feed
\* is read, an entry without summary or authors): nothing catches it
GetArticlesRaises ==
    /\ pc = "fetch"
    /\ c <= Len(updates[u].category)
    /\ log' = Append(log, FetchCall(u, updates[u].category[c]))
    /\ exc' = "FetchError"
    /\ exitCode' = 1
    /\ pc' = "exited"
    /\ UNCHANGED <<day, quiet, config, token, updates, u, c, articles,
                   fetched, k>>

SendsNothingTextAlways(arts, q) == arts = <<>>

SendsNothingText(arts, q) == arts = <<>> /\ ~q

\* the branch after the category loop: nothing found, or the count
Report ==
    /\ pc = "fetch"
    /\ c > Len(updates[u].category)
    /\ IF articles = <<>>
       THEN /\ log' = IF SendsNothingText(articles, quiet)
                      THEN Append(log, SendCall(u, updates[u].chat_id, NothingText))
                      ELSE log
            /\ pc' = "return"
            /\ k' = k
       ELSE /\ log' = Append(log, SendCall(u, updates[u].chat_id,
                                           SummaryText(articles)))
            /\ pc' = "send"
            /\ k' = 1
    /\ UNCHANGED <<day, quiet, config, exc, exitCode, token, updates, u, c,
                   articles, fetched>>

ArticleAtReversed(arts, i) == arts[Len(arts) + 1 - i]

ArticleAtFirst(arts, i) == arts[1]

ArticleAt(arts, i) == arts[i]

\* one round of "for article in articles"
SendArticle ==
    /\ pc = "send"
    /\ k <= Len(articles)
    /\ log' = Append(log, SendCall(u, updates[u].chat_id,
                                   ArticleText(ArticleAt(articles, k))))
    /\ k' = k + 1
    /\ pc' = IF k = Len(articles) THEN "return" ELSE "send"
    /\ UNCHANGED <<day, quiet, config, exc, exitCode, token, updates, u, c,
                   articles, fetched>>

\* send_articles returns to main's loop and its locals are gone
Return ==
    /\ pc = "return"
    /\ pc' = "loop"
    /\ u' = u + 1
    /\ c' = 0
    /\ k' = 0
    /\ articles' = <<>>
    /\ fetched' = <<>>
    /\ UNCHANGED <<day, quiet, config, exc, exitCode, token, updates, log>>

Next ==
    \/ Gate
    \/ Main
    \/ StartUpdate
    \/ Finish
    \/ GetArticles
    \/ GetArticlesRaises
    \/ Report
    \/ SendArticle
    \/ Return

Spec == Init /\ [][Next]_vars

---------------------------------------------------------------------------
(* Properties *)

InSendArticles == pc \in {"fetch", "send", "return"}

\* the bot.send_message calls made for update upd, in call order
SendsOf(upd) ==
    LET IsSend(e) == e.op = "send_message" /\ e.upd = upd
    IN  SelectSeq(log, IsSend)

\* the feedparser.parse calls made for update upd, in call order
FetchesOf(upd) ==
    LET IsFetch(e) == e.op = "parse" /\ e.upd = upd
    IN  SelectSeq(log, IsFetch)

\* the entries of the feeds fetched so far for the current update, in
\* category order and feed order
Traversal == flatten(fetched)

\* C1: the list send_articles builds never holds two articles of the same
\* identifier, even when the fetched copies differ in other fields.
C1_NoIdentifierTwice ==
    \A i, j \in DOMAIN articles :
        i # j => articles[i].id # articles[j].id

\* C2: when send_articles has found nothing, a quiet run sends nothing for
\* this update and a run that is not quiet sends exactly the "nothing of
\* interest" text to the chat of this update.
C2_EmptyResult ==
    (pc = "return" /\ articles = <<>>) =>
        SendsOf(u) = IF quiet THEN <<>>
                     ELSE <<SendCall(u, updates[u].chat_id, NothingText)>>

\* a quiet run in which the feeds held entries and none of them matched
C2_Witness ==
    /\ pc = "return"
    /\ articles = <<>>
    /\ quiet
    /\ Traversal # <<>>
    /\ SendsOf(u) = <<>>

Matched(entry, update) ==
    \/ \E i \in DOMAIN update.buzzwords :
           \/ partial_ratio(update.buzzwords[i], entry.title) > Threshold
           \/ partial_ratio(update.buzzwords[i], entry.summary) > Threshold
    \/ \E i \in DOMAIN update.authors :
           partial_ratio(update.authors[i], entry.authors) > Threshold

\* the position at which x first occurs in s
FirstIndex(s, x) == CHOOSE i \in DOMAIN s : s[i] = x /\ \A j \in 1..(i - 1) : s[j] # x

\* C4: the list send_articles builds holds the matched entries of the
\* traversal (categories in update order, entries in feed order), each at
\* the rank of its first occurrence, whatever triggered the match.
C4_FirstSeenOrder ==
    InSendArticles =>
        LET trav == Traversal
            rank == [i \in DOMAIN articles |-> FirstIndex(trav, articles[i])]
        IN  /\ \A i \in DOMAIN articles :
                   InSeq(articles[i], trav) /\ Matched(articles[i], updates[u])
            /\ \A i \in DOMAIN trav :
                   Matched(trav[i], updates[u]) => InSeq(trav[i], articles)
            /\ \A i, j \in DOMAIN articles : i < j => rank[i] < rank[j]

\* three entries matched in the fetch order E1b (by an author), E2, E1 (by a
\* keyword), over two categories, give exactly that list
C4_Witness ==
    /\ pc = "return"
    /\ Len(fetched) = 2
    /\ articles = <<E1b, E2, E1>>

\* the configuration has one of the three documented defects
ConfigurationError(cfg) ==
    \/ ~HasSection(cfg, "bot")
    \/ "token" \notin DOMAIN SectionOpts(cfg, "bot")
    \/ \E i \in DOMAIN cfg : cfg[i].name # "bot" /\ ~SectionComplete(cfg[i].opts)

ConfigurationExceptions ==
    {"Exception:no_bot", "Exception:no_token", "Exception:incomplete"}

\* C5: a run whose configuration lacks the bot section, the token, or one
\* of category, chat_id, buzzwords in any section makes no fetch and sends
\* no message, and so does every run that ends in a configuration error.
C5_ConfigErrorBeforeAnyCall ==
    (ConfigurationError(config) \/ exc \in ConfigurationExceptions) => log = <<>>

\* the run ended in the error of an incomplete section that follows the
\* bot section and a complete section
C5_Witness ==
    /\ pc = "exited"
    /\ exc = "Exception:incomplete"
    /\ Len(config) = 3
    /\ config[1] = SecBot
    /\ config[2] = SecAlice
    /\ ~SectionComplete(config[3].opts)
    /\ log = <<>>

\* C6: on Saturday and Sunday the process has exited with status 0 without
\* loading the configuration, fetching or sending; on the other days the
\* gate lets the run go on to load_config.
C6_WeekendGate ==
    /\ day \in {"Saturday", "Sunday"} =>
           /\ pc = "exited"
           /\ exitCode = 0
           /\ exc = "none"
           /\ config = <<>>
           /\ token = ""
           /\ updates = <<>>
           /\ log = <<>>
    /\ (day \in DayNames \ {"Saturday", "Sunday"} /\ pc = "exited") =>
           (exc # "none" \/ token # "")

\* the gate has run on a Saturday
C6_Witness ==
    /\ day = "Saturday"
    /\ pc = "exited"
    /\ exitCode = 0

\* every category of every update has been fetched
AllCategoriesFetched ==
    \A i \in DOMAIN updates :
        [j \in DOMAIN FetchesOf(i) |-> FetchesOf(i)[j].arg] = updates[i].category

\* C7: a fetch that fails never aborts the run: the run ends only after
\* every category of every update has been fetched and every update has
\* been reported on.
C7_FetchFailureDoesNotAbort ==
    (pc = "exited" /\ exc \notin ConfigurationExceptions \union {"KeyError:authors"}
        /\ day \notin {"Saturday", "Sunday"}) =>
        /\ exc = "none"
        /\ exitCode = 0
        /\ AllCategoriesFetched
        /\ u = Len(updates) + 1

\* C8: the calls of a run are in update order without interleaving, every
\* call carries the category or the chat of the update it is made for, the
\* fetches of an update come before its messages, and the article texts of
\* an update follow its count text in the order of the list.
C8_CallOrder ==
    /\ \A i, j \in DOMAIN log : i < j =>
           /\ log[i].upd <= log[j].upd
           /\ (log[i].upd = log[j].upd /\ log[j].op = "parse") => log[i].op = "parse"
    /\ \A i \in DOMAIN log :
           /\ log[i].upd \in DOMAIN updates
           /\ log[i].op = "send_message" => log[i].arg = updates[log[i].upd].chat_id
           /\ log[i].op = "parse" => InSeq(log[i].arg, updates[log[i].upd].category)
    /\ InSendArticles =>
           LET sends == SendsOf(u)
           IN  /\ \A i \in DOMAIN log : log[i].upd <= u
               /\ \A i \in DOMAIN sends :
                      IF i = 1
                      THEN sends[i].text \in {NothingText, SummaryText(articles)}
                      ELSE /\ i - 1 <= Len(articles)
                           /\ sends[i].text = ArticleText(articles[i - 1])
    /\ pc = "loop" => \A i \in DOMAIN log : log[i].upd < u

\* the second update of a run has sent its count and two article texts
\* after the first update sent its own
C8_Witness ==
    /\ pc = "return"
    /\ u = 2
    /\ Len(articles) >= 2
    /\ Len(SendsOf(2)) = Len(articles) + 1
    /\ SendsOf(1) # <<>>

\* The evaluation as the specification words it: one accumulating list, an
\* article whose identifier is already in it is skipped, the keyword loop
\* stops at the first hit, the authors are tried only if no keyword hit.
RECURSIVE SpecKeywordHit(_, _, _)
SpecKeywordHit(entry, keywords, i) ==
    IF i > Len(keywords) THEN FALSE
    ELSE IF partial_ratio(keywords[i], entry.title) > Threshold
            \/ partial_ratio(keywords[i], entry.summary) > Threshold
         THEN TRUE
    ELSE SpecKeywordHit(entry, keywords, i + 1)

RECURSIVE SpecAuthorHit(_, _, _)
SpecAuthorHit(entry, names, i) ==
    IF i > Len(names) THEN FALSE
    ELSE IF partial_ratio(names[i], entry.authors) > Threshold THEN TRUE
    ELSE SpecAuthorHit(entry, names, i + 1)

RECURSIVE SpecEvaluate(_, _, _, _)
SpecEvaluate(trav, update, i, relevant) ==
    IF i > Len(trav) THEN relevant
    ELSE IF \E j \in DOMAIN relevant : relevant[j].id = trav[i].id
         THEN SpecEvaluate(trav, update, i + 1, relevant)
    ELSE IF SpecKeywordHit(trav[i], update.buzzwords, 1)
         THEN SpecEvaluate(trav, update, i + 1, Append(relevant, trav[i]))
    ELSE IF SpecAuthorHit(trav[i], update.authors, 1)
         THEN SpecEvaluate(trav, update, i + 1, Append(relevant, trav[i]))
    ELSE SpecEvaluate(trav, update, i + 1, relevant)

\* C9: the list the code builds is the list the evaluation of the
\* specification returns on the same feeds: the same articles in the same
\* order.
C9_SameAsSpecEvaluation ==
    InSendArticles => articles = SpecEvaluate(Traversal, updates[u], 1, <<>>)

\* the chat_id of the sections other than bot, in file order
RECURSIVE ChatIds(_, _)
ChatIds(cfg, i) ==
    IF i > Len(cfg) THEN <<>>
    ELSE (IF cfg[i].name = "bot" THEN <<>> ELSE <<cfg[i].opts["chat_id"][1]>>)
         \o ChatIds(cfg, i + 1)

\* C10: load_config raises for the three documented reasons only: with a
\* bot section, a token, and category, chat_id and buzzwords in every other
\* section, it returns the token and one update per section, in order.
C10_RaisesOnlyAsDocumented ==
    (pc \notin {"gate", "main"} /\ day \notin {"Saturday", "Sunday"}
        /\ ~ConfigurationError(config)) =>
        /\ exc \notin ConfigurationExceptions \union {"KeyError:authors"}
        /\ token = SectionOpts(config, "bot")["token"][1]
        /\ [i \in DOMAIN updates |-> updates[i].chat_id] = ChatIds(config, 1)

====
